---- MODULE Spec2Model ----
(***************************************************************************)
(* Model of the bulk delivery client of talk_to_salesforce:                *)
(* talk_to_salesforce/src/salesforce.py (SaleforceAPIClient) and the       *)
(* nested-key helpers of talk_to_salesforce/src/utils.py.                  *)
(*                                                                         *)
(* Data representation.                                                    *)
(*   string   a sequence of chunks; a chunk is either the separator "."    *)
(*            or a separator-free piece of text ("attributes", "Name").    *)
(*   dict     a sequence of entries [k |-> key, v |-> value] with distinct *)
(*            keys, in insertion order (Python dicts keep that order).     *)
(*   value    [t |-> "scalar", s |-> text], [t |-> "dict", d |-> dict]     *)
(*            or [t |-> "list"] (a JSON array, contents not modelled).     *)
(*   result   [ok |-> TRUE, d |-> dict] for a returned dict,               *)
(*            [ok |-> FALSE, err |-> kind] for a raised exception.         *)
(***************************************************************************)
EXTENDS Integers, Sequences, FiniteSets, TLC

\* ------------------------------------------------------------------ bounds

\* Longest row source of a run.
MaxRows == 5
\* Largest bulk size a configuration uses.
MaxBulk == 3
\* Most operations a caller performs on one client.
MaxOps == 3
\* Most rows a caller hands to one client over several operations.
MaxItems == 3
\* Most fields of a record given to the encoder.
MaxFields == 2
\* Most slashes that end a base instance URL.
MaxSlashes == 2

\* ------------------------------------------------------- values and dicts

Separator == "."

Scalar(s) == [t |-> "scalar", s |-> s]

Mapping(d) == [t |-> "dict", d |-> d]

JsonList == [t |-> "list"]

Ok(d) == [ok |-> TRUE, d |-> d]

Err(kind) == [ok |-> FALSE, err |-> kind]

EmptyDict == << >>

HasKey(d, k) == \E i \in 1..Len(d) : d[i].k = k

KeyIndex(d, k) == CHOOSE i \in 1..Len(d) : d[i].k = k

\* d[k]
DictGet(d, k) == d[KeyIndex(d, k)].v

\* d[k] = v : an existing key keeps its position, a new key goes last.
DictSet(d, k, v) ==
    IF HasKey(d, k)
    THEN [d EXCEPT ![KeyIndex(d, k)] = [k |-> k, v |-> v]]
    ELSE Append(d, [k |-> k, v |-> v])

\* d.setdefault(k, {}) returning a new mapping whatever d holds.
setdefault_fresh(d, k) == Mapping(EmptyDict)

\* d.setdefault(k, {}) : the value returned
setdefault(d, k) == IF HasKey(d, k) THEN DictGet(d, k) ELSE Mapping(EmptyDict)

\* ------------------------------------------------------------- utils.py

RECURSIVE split(_, _)
\* str.split(separator): the pieces between separators, empty pieces kept.
split(s, sep) ==
    IF \A i \in 1..Len(s) : s[i] # sep
    THEN << s >>
    ELSE LET i == CHOOSE j \in 1..Len(s) :
                      s[j] = sep /\ \A h \in 1..(j - 1) : s[h] # sep
         IN  << SubSeq(s, 1, i - 1) >> \o split(SubSeq(s, i + 1, Len(s)), sep)

RECURSIVE set_nested_lenient(_, _, _)
\* set_nested(d, path, value) putting a new mapping in the place of a value
\* on the path that is no mapping.
set_nested_lenient(d, path, value) ==
    IF Len(path) = 1
    THEN Ok(DictSet(d, path[1], value))
    ELSE LET k == Head(path)
             child == setdefault(d, k)
             r == set_nested_lenient(IF child.t # "dict" THEN EmptyDict ELSE child.d,
                                     Tail(path), value)
         IN  Ok(DictSet(d, k, Mapping(r.d)))

RECURSIVE set_nested(_, _, _)
\* set_nested(d, path, value): get_nested_default walks path[:-1] with
\* setdefault(k, {}), then the last key is assigned. A value on the way that
\* is no dict has no setdefault (AttributeError) and takes no item
\* assignment by a text key (TypeError).
set_nested(d, path, value) ==
    IF Len(path) = 1
    THEN Ok(DictSet(d, path[1], value))
    ELSE LET k == Head(path)
             child == setdefault(d, k)
         IN  IF child.t # "dict"
             THEN Err(IF Len(path) = 2 THEN "TypeError" ELSE "AttributeError")
             ELSE LET r == set_nested(child.d, Tail(path), value)
                  IN  IF r.ok THEN Ok(DictSet(d, k, Mapping(r.d))) ELSE r

RECURSIVE unflatten_from(_, _, _)
\* The loop of unflatten from entry i on, output being the dict built so far.
unflatten_from(d, i, output) ==
    IF i > Len(d)
    THEN Ok(output)
    ELSE LET r == set_nested(output, split(d[i].k, Separator), d[i].v)
         IN  IF r.ok THEN unflatten_from(d, i + 1, r.d) ELSE r

unflatten(d) == unflatten_from(d, 1, EmptyDict)

\* The path p stops before the path q does.
IsPrefix(p, q) == Len(p) < Len(q) /\ SubSeq(q, 1, Len(p)) = p

RECURSIVE PathGet(_, _)
\* The value found in d by following path, one nested mapping per key.
PathGet(d, path) ==
    IF ~HasKey(d, Head(path)) THEN [found |-> FALSE]
    ELSE LET c == DictGet(d, Head(path))
         IN  IF Len(path) = 1 THEN [found |-> TRUE, v |-> c]
             ELSE IF c.t # "dict" THEN [found |-> FALSE]
             ELSE PathGet(c.d, Tail(path))

\* After the first i entries of d were put into output, the value of entry j
\* is still where set_nested put it: no later entry was assigned at a path
\* that stops before its own, replacing a mapping that holds it.
InPlace(d, j, i) ==
    /\ j <= i
    /\ \A h \in (j + 1)..i :
           ~IsPrefix(split(d[h].k, Separator), split(d[j].k, Separator))

RECURSIVE unflatten_source(_, _, _, _)
\* What the loop of unflatten does to the record it reads, from entry i on:
\* set_nested puts each value into output as the object it is, without a
\* copy, so that a mapping of the record that is in place in output is
\* changed whenever a later key is set through it. source is the record as
\* it is now; entry j of d is entry j of source when d[j].shared.
unflatten_source(d, i, output, source) ==
    IF i > Len(d)
    THEN source
    ELSE LET r == set_nested(output, split(d[i].k, Separator), d[i].v)
         IN  IF ~r.ok
             THEN source
             ELSE unflatten_source(
                      d, i + 1, r.d,
                      [j \in 1..Len(source) |->
                          IF source[j].k = d[j].k /\ d[j].shared /\ InPlace(d, j, i)
                          THEN [source[j] EXCEPT
                                   !.v = PathGet(r.d, split(d[j].k, Separator)).v]
                          ELSE source[j]])

\* ------------------------------------------- build_api_endpoint (salesforce.py)

\* Python's None where a text is expected; no text used here equals it.
None == "None"

Slash == "/"

\* The default of the version parameter.
ApiVersion == "v58.0"

\* The chunks of a text that holds no slash ("" has none).
Chunks(text) == IF text = "" THEN << >> ELSE << text >>

\* re.sub("/$", "", instance_url) leaving the text as it is.
strip_trailing_slash_never(url) == url

\* re.sub("/$", "", instance_url): one slash at the end is removed.
strip_trailing_slash(url) ==
    IF url # << >> /\ url[Len(url)] = Slash THEN SubSeq(url, 1, Len(url) - 1) ELSE url

\* "/services/data/%s/composite/sobjects" % version
CollectionPath ==
    << Slash, "services", Slash, "data", Slash, ApiVersion,
       Slash, "composite", Slash, "sobjects" >>

\* build_api_endpoint taking every external id but None for one.
build_api_endpoint_not_none(instance_url, obj, external_id) ==
    IF obj = None THEN [ok |-> FALSE, err |-> "Exception"]
    ELSE IF external_id # None
    THEN [ok |-> TRUE,
          url |-> strip_trailing_slash(instance_url) \o CollectionPath
                      \o << Slash >> \o Chunks(obj) \o << Slash >> \o Chunks(external_id),
          method |-> "PATCH"]
    ELSE [ok |-> TRUE,
          url |-> strip_trailing_slash(instance_url) \o CollectionPath,
          method |-> "POST"]

\* build_api_endpoint accepting an object that is None.
build_api_endpoint_any_object(instance_url, obj, external_id) ==
    IF external_id # None /\ external_id # ""
    THEN [ok |-> TRUE,
          url |-> strip_trailing_slash(instance_url) \o CollectionPath
                      \o << Slash >> \o Chunks(obj) \o << Slash >> \o Chunks(external_id),
          method |-> "PATCH"]
    ELSE [ok |-> TRUE,
          url |-> strip_trailing_slash(instance_url) \o CollectionPath,
          method |-> "POST"]

\* build_api_endpoint(instance_url, version, object, external_id)
build_api_endpoint(instance_url, obj, external_id) ==
    IF obj = None THEN [ok |-> FALSE, err |-> "Exception"]
    ELSE IF external_id # None /\ external_id # ""
    THEN [ok |-> TRUE,
          url |-> strip_trailing_slash(instance_url) \o CollectionPath
                      \o << Slash >> \o Chunks(obj) \o << Slash >> \o Chunks(external_id),
          method |-> "PATCH"]
    ELSE [ok |-> TRUE,
          url |-> strip_trailing_slash(instance_url) \o CollectionPath,
          method |-> "POST"]

\* ------------------------------------------------- client state (salesforce.py)

VARIABLES
    ctor,                    \* the arguments given to __init__
    built,                   \* __init__: "pending", "built", or "raised"
    api_endpoint_url,        \* self.api_endpoint_url
    api_http_method,         \* self.api_http_method
    access_token,            \* self.access_token
    headers,                 \* self.session.headers (the two that login sets)
    object,                  \* self.object
    bulk_size,               \* self.bulk_size
    all_or_none,             \* self.all_or_none: "unset" until set_all_or_none
    dry_run_mode,            \* self.dry_run_mode
    req_item_json_template,  \* self.req_item_json_template: "None" or a template
    queue,                   \* self.queue
    queue_size,              \* self.queue_size
    pc,                      \* send_all_rows: "idle", "running", "done", "raised"
    rows,                    \* the row source of the current send_all_rows call
    pulled,                  \* rows pulled from the source so far
    bulk,                    \* the bulk argument of the call
    check_empty_iterator,    \* the local flag of send_all_rows
    error,                   \* exception raised by the last operation, or "none"
    requests,                \* history: bodies given to send_http_request
    transport,               \* history: session.send calls and their answers
    log,                     \* history: entries given to the logger
    run_start,               \* Len(requests) when the current call began
    ops,                     \* operations the caller has performed
    op,                      \* the last operation performed
    supplied,                \* rows the caller has handed to the client
    encRow,                  \* SpecEncoder: the record given to custom_json_encoder
    encOut,                  \* SpecEncoder: its result, err "pending" before the call
    encSource                \* SpecEncoder: the record as it is, the caller's object

endpoint == << ctor, built, api_endpoint_url, api_http_method >>

auth == << access_token, headers >>

config == << object, bulk_size, all_or_none, dry_run_mode, req_item_json_template >>

call == << pc, rows, pulled, bulk, check_empty_iterator, run_start >>

history == << requests, transport, log >>

enc == << encRow, encOut, encSource >>

vars == << endpoint, auth, config, queue, queue_size, call, error, history, ops, op,
          supplied, enc >>

\* The bulk size __init__ sets.
DefaultBulkSize == 200

ObjectName == "Account"

Unset == "unset"

NoTemplate == "None"

\* ------------------------------------------------------------ the encoder

Attributes == << "attributes" >>

Type == << "type" >>

\* Jinja templates a caller may configure, named by what they render:
\*   "obj"    every field of the row as a JSON object, in the row's order
\*   "list"   a JSON array
\*   "text"   text that is no JSON
\*   "undef"  a template whose rendering raises (attribute of an undefined)
\*   "quoted" a JSON object of every field of the row, in the row's order,
\*            each value written as it is between double quotes
Templates == {"obj", "list", "text", "undef", "quoted"}

\* A text that holds a double quote.
Quoted == "a\"b"

\* "{{ v }}" for a value of a row.
str(v) == IF v.t = "scalar" THEN v.s ELSE "{...}"

\* The output of "quoted" is no JSON when a value of the row holds a double
\* quote.
render_quoted(row) ==
    IF \E i \in 1..Len(row) : str(row[i].v) = Quoted
    THEN [ok |-> FALSE, err |-> "Exception"]
    ELSE [ok |-> TRUE,
          v |-> Mapping([i \in 1..Len(row) |-> [k |-> row[i].k, v |-> Scalar(str(row[i].v))]])]

\* template.render({"row": row}) followed by json.loads
render_and_load(template, row) ==
    CASE template = "obj"   -> [ok |-> TRUE, v |-> Mapping(row)]
      [] template = "quoted" -> render_quoted(row)
      [] template = "list"  -> [ok |-> TRUE, v |-> JsonList]
      [] template = "text"  -> [ok |-> FALSE, err |-> "Exception"]
      [] template = "undef" -> [ok |-> FALSE, err |-> "UndefinedError"]

\* custom_json_encoder(row) adding no "attributes" field.
custom_json_encoder_no_type(row) ==
    LET loaded == IF req_item_json_template # NoTemplate
                  THEN render_and_load(req_item_json_template, row)
                  ELSE [ok |-> TRUE, v |-> Mapping(row)]
    IN  IF ~loaded.ok THEN Err(loaded.err)
        ELSE IF loaded.v.t # "dict" THEN Err("TypeError")
        ELSE unflatten(loaded.v.d)

\* custom_json_encoder(row)
custom_json_encoder(row) ==
    LET loaded == IF req_item_json_template # NoTemplate
                  THEN render_and_load(req_item_json_template, row)
                  ELSE [ok |-> TRUE, v |-> Mapping(row)]
    IN  IF ~loaded.ok THEN Err(loaded.err)
        ELSE IF loaded.v.t # "dict" THEN Err("TypeError")
        ELSE unflatten(DictSet(loaded.v.d, Attributes,
                               Mapping(<< [k |-> Type, v |-> Scalar(object)] >>)))

\* The record after custom_json_encoder(row). A template reads the record
\* and json.loads builds new values. Without one, dict(row) is a copy one
\* level deep: the values of v are the values of row, but for "attributes",
\* assigned a new mapping in v alone.
custom_json_encoder_source(row) ==
    IF req_item_json_template # NoTemplate
    THEN row
    ELSE LET v == DictSet(row, Attributes,
                          Mapping(<< [k |-> Type, v |-> Scalar(object)] >>))
             d == [j \in 1..Len(v) |->
                      [k |-> v[j].k, v |-> v[j].v,
                       shared |-> j <= Len(row) /\ v[j].k # Attributes]]
         IN  unflatten_source(d, 1, EmptyDict, row)

\* ------------------------------------------------------------ the server

\* What a per-record outcome of a 200 response says of success: true, false,
\* or no "success" key at all.
Flags == {"true", "false", "absent"}

\* How the transport answers one request: session.send raises ("exception"),
\* a response with a status other than 200 ("status"), or a 200 response
\* whose body holds one outcome per submitted record, the i-th flagged
\* flags[i] (the flags repeat when a batch holds more than n records).
Servers(n) ==
    {[kind |-> "exception"], [kind |-> "status"]}
        \cup {[kind |-> "ok", flags |-> f] : f \in [1..n -> Flags]}

\* The two answers that decide how an operation ends: session.send raises,
\* or it returns a response (here a 200 accepting every record).
PlainServers ==
    {[kind |-> "exception"], [kind |-> "ok", flags |-> << "true" >>]}

\* The status code of a response that is not 200.
OtherStatus == 500

\* resp.json() of the 200 response to a request holding n records
Outcomes(server, n) ==
    [i \in 1..n |-> [id |-> i,
                     success |-> server.flags[((i - 1) % Len(server.flags)) + 1]]]

\* ---------------------------------------------------- delivery (salesforce.py)

\* The part of the state an operation works on, as one record.
World ==
    [queue |-> queue, queue_size |-> queue_size, requests |-> requests,
     transport |-> transport, log |-> log, error |-> "none"]

Logged(w, entries) == [w EXCEPT !.log = @ \o entries]

Raised(w, kind) == [w EXCEPT !.error = kind]

\* json.dumps of a request body, and json.loads of that text
json_dumps(body) == [json |-> body]

json_loads(text) == text.json

\* reset_queue() resetting the counter alone.
reset_queue_size_only(w) == [w EXCEPT !.queue_size = 0]

\* reset_queue()
reset_queue(w) == [w EXCEPT !.queue = << >>, !.queue_size = 0]

\* The dry-run branch of send_http_request leaving the last record out.
dry_run_report_short(w, body) ==
    LET p == json_loads(body)
        records == p.records
        total == Len(records)
    IN  IF total > 0
        THEN Logged(w,
                 << [level |-> "info", msg |-> "[DRY RUN] Would have sent",
                     total |-> total, allOrNone |-> p.allOrNone] >>
                 \o [i \in 1..(total - 1) |->
                        [level |-> "info", msg |-> "[DRY RUN] Record",
                         index |-> i, total |-> total, record |-> records[i]]])
        ELSE Logged(w, << [level |-> "info", msg |-> "[DRY RUN] No record to send"] >>)

\* The dry-run branch of send_http_request listing the records last to first.
dry_run_report_reversed(w, body) ==
    LET p == json_loads(body)
        records == p.records
        total == Len(records)
    IN  IF total > 0
        THEN Logged(w,
                 << [level |-> "info", msg |-> "[DRY RUN] Would have sent",
                     total |-> total, allOrNone |-> p.allOrNone] >>
                 \o [i \in 1..total |->
                        [level |-> "info", msg |-> "[DRY RUN] Record",
                         index |-> i, total |-> total,
                         record |-> records[total + 1 - i]]])
        ELSE Logged(w, << [level |-> "info", msg |-> "[DRY RUN] No record to send"] >>)

\* The dry-run branch of send_http_request.
dry_run_report(w, body) ==
    LET p == json_loads(body)
        records == p.records
        total == Len(records)
    IN  IF total > 0
        THEN Logged(w,
                 << [level |-> "info", msg |-> "[DRY RUN] Would have sent",
                     total |-> total, allOrNone |-> p.allOrNone] >>
                 \o [i \in 1..total |->
                        [level |-> "info", msg |-> "[DRY RUN] Record",
                         index |-> i, total |-> total, record |-> records[i]]])
        ELSE Logged(w, << [level |-> "info", msg |-> "[DRY RUN] No record to send"] >>)

RECURSIVE count_success_lenient(_)
\* count_success taking every outcome not flagged false for a success.
count_success_lenient(p) ==
    IF p = << >> THEN 0
    ELSE (IF Head(p).success # "false" THEN 1 ELSE 0) + count_success_lenient(Tail(p))

RECURSIVE count_success(_)
\* success_n after the loop over the outcomes p
count_success(p) ==
    IF p = << >> THEN 0
    ELSE (IF Head(p).success = "true" THEN 1 ELSE 0) + count_success(Tail(p))

RECURSIVE failure_warnings(_)
\* The warnings the loop over the outcomes p logs, in order.
failure_warnings(p) ==
    IF p = << >> THEN << >>
    ELSE (IF Head(p).success = "true"
          THEN << >>
          ELSE << [level |-> "warning", msg |-> "error when sending",
                   outcome |-> Head(p)] >>)
         \o failure_warnings(Tail(p))

\* The body of a response that is not 200.
ErrorContent == "content"

\* logger.warning(msg, *args): logging formats msg % args when it emits the
\* record. When the arguments do not fit the directives of msg the handler
\* reports the failure on stderr and the record is not logged.
logger_warning(msg, directives, args) ==
    IF Len(args) = directives
    THEN << [level |-> "warning", msg |-> msg, args |-> args] >>
    ELSE << >>

\* send_http_request returning without reading the response.
interpret_response_ignored(w, n, server) == w

\* The interpretation of a response (lines 238-248). The warning of a status
\* other than 200 gets one argument, the pair (resp.content, resp.status_code),
\* for the two directives of its text.
interpret_response(w, n, server) ==
    IF server.kind = "ok"
    THEN LET p == Outcomes(server, n)
         IN  Logged(w, failure_warnings(p)
                       \o << [level |-> "info", msg |-> "request sent",
                              success_n |-> count_success(p), total |-> Len(p)] >>)
    ELSE Logged(w, logger_warning(
                       "error when sending the rows", 2,
                       << [content |-> ErrorContent, status_code |-> OtherStatus] >>))

\* send_http_request testing dry_run_mode only after the request was sent.
send_http_request_late_dry_run(w, body, server) ==
    LET n == Len(json_loads(body).records)
        w1 == Logged([w EXCEPT !.requests = Append(@, body)],
                     << [level |-> "info", msg |-> "Sending a HTTP request",
                         method |-> api_http_method, url |-> api_endpoint_url] >>)
        w2 == [w1 EXCEPT !.transport =
                   Append(@, [method |-> api_http_method, url |-> api_endpoint_url,
                              headers |-> headers,
                              body |-> body, answer |-> server.kind,
                              outcomes |-> IF server.kind = "ok"
                                           THEN Outcomes(server, n)
                                           ELSE << >>])]
    IN  IF dry_run_mode THEN dry_run_report(w2, body)
        ELSE IF server.kind = "exception"
        THEN Raised(Logged(w2, << [level |-> "info", msg |-> "exception"] >>),
                    "UnboundLocalError")
        ELSE interpret_response(w2, n, server)

\* send_http_request sending with the default of its method parameter.
send_http_request_default_method(w, body, server) ==
    LET w1 == Logged([w EXCEPT !.requests = Append(@, body)],
                     << [level |-> "info", msg |-> "Sending a HTTP request",
                         method |-> "POST", url |-> api_endpoint_url] >>)
    IN  IF dry_run_mode
        THEN dry_run_report(w1, body)
        ELSE LET n == Len(json_loads(body).records)
                 w2 == [w1 EXCEPT !.transport =
                            Append(@, [method |-> "POST",
                                       url |-> api_endpoint_url,
                                       headers |-> headers,
                                       body |-> body, answer |-> server.kind,
                                       outcomes |-> IF server.kind = "ok"
                                                    THEN Outcomes(server, n)
                                                    ELSE << >>])]
             IN  IF server.kind = "exception"
                 THEN Raised(Logged(w2, << [level |-> "info", msg |-> "exception"] >>),
                             "UnboundLocalError")
                 ELSE interpret_response(w2, n, server)

\* send_http_request(method, body), the transport answering as server does.
\* The URL and the verb are those of the client, whatever method is given.
\* When session.send raises, the exception is logged and resp stays unbound:
\* reading resp.status_code then raises UnboundLocalError.
send_http_request(w, body, server) ==
    LET w1 == Logged([w EXCEPT !.requests = Append(@, body)],
                     << [level |-> "info", msg |-> "Sending a HTTP request",
                         method |-> api_http_method, url |-> api_endpoint_url] >>)
    IN  IF dry_run_mode
        THEN dry_run_report(w1, body)
        ELSE LET n == Len(json_loads(body).records)
                 w2 == [w1 EXCEPT !.transport =
                            Append(@, [method |-> api_http_method,
                                       url |-> api_endpoint_url,
                                       headers |-> headers,
                                       body |-> body, answer |-> server.kind,
                                       outcomes |-> IF server.kind = "ok"
                                                    THEN Outcomes(server, n)
                                                    ELSE << >>])]
             IN  IF server.kind = "exception"
                 THEN Raised(Logged(w2, << [level |-> "info", msg |-> "exception"] >>),
                             "UnboundLocalError")
                 ELSE interpret_response(w2, n, server)

\* send_bulk_request(records) writing False for allOrNone whatever the flag is.
send_bulk_request_flag_false(w, records, server) ==
    IF all_or_none = Unset
    THEN Raised(w, "AttributeError")
    ELSE send_http_request(
             w, json_dumps([allOrNone |-> "False", records |-> records]), server)

\* send_bulk_request(records) taking False for a flag that was never set.
send_bulk_request_default_flag(w, records, server) ==
    send_http_request(
        w, json_dumps([allOrNone |-> IF all_or_none = Unset THEN "False" ELSE all_or_none,
                       records |-> records]), server)

\* send_bulk_request(records): self.all_or_none is read while the body is built.
send_bulk_request(w, records, server) ==
    IF all_or_none = Unset
    THEN Raised(w, "AttributeError")
    ELSE send_http_request(
             w, json_dumps([allOrNone |-> all_or_none, records |-> records]), server)

\* send_single_request(record): calls send_bulk_request with a keyword
\* argument all_or_none that send_bulk_request does not take.
send_single_request(w, record, server) == Raised(w, "TypeError")

\* queue_item_and_send_bulk_request appending without counting.
queue_item_and_send_bulk_request_uncounted(w, item, server) ==
    LET w1 == [w EXCEPT !.queue = Append(@, item)]
    IN  IF w1.queue_size >= bulk_size
        THEN LET w2 == send_bulk_request(w1, w1.queue, server)
             IN  IF w2.error # "none" THEN w2 ELSE reset_queue(w2)
        ELSE w1

\* queue_item_and_send_bulk_request sending only once the queue is longer
\* than bulk_size.
queue_item_and_send_bulk_request_late(w, item, server) ==
    LET w1 == [w EXCEPT !.queue = Append(@, item), !.queue_size = @ + 1]
    IN  IF w1.queue_size > bulk_size
        THEN LET w2 == send_bulk_request(w1, w1.queue, server)
             IN  IF w2.error # "none" THEN w2 ELSE reset_queue(w2)
        ELSE w1

\* queue_item_and_send_bulk_request sending one item before bulk_size.
queue_item_and_send_bulk_request_early(w, item, server) ==
    LET w1 == [w EXCEPT !.queue = Append(@, item), !.queue_size = @ + 1]
    IN  IF w1.queue_size >= bulk_size - 1
        THEN LET w2 == send_bulk_request(w1, w1.queue, server)
             IN  IF w2.error # "none" THEN w2 ELSE reset_queue(w2)
        ELSE w1

\* queue_item_and_send_bulk_request(item)
queue_item_and_send_bulk_request(w, item, server) ==
    LET w1 == [w EXCEPT !.queue = Append(@, item), !.queue_size = @ + 1]
    IN  IF w1.queue_size >= bulk_size
        THEN LET w2 == send_bulk_request(w1, w1.queue, server)
             IN  IF w2.error # "none" THEN w2 ELSE reset_queue(w2)
        ELSE w1

\* flush() sending nothing.
flush_never(w, server) == w

\* flush() sending the queue whether or not it holds anything.
flush_unguarded(w, server) == send_bulk_request(w, w.queue, server)

\* flush()
flush(w, server) ==
    IF w.queue_size > 0 THEN send_bulk_request(w, w.queue, server) ELSE w

\* ------------------------------------------------------------- the caller

\* The i-th record a row source yields: a flat field and a dotted one, whose
\* value holds a double quote in every third record.
Row(i) ==
    << [k |-> << "Name" >>, v |-> Scalar(ToString(i))],
       [k |-> << "Owner", Separator, "Id" >>,
        v |-> IF i % 3 = 0 THEN Scalar(Quoted) ELSE Scalar("u")] >>

BulkSizes == 1..MaxBulk

AllOrNoneValues == {"True", "False"}

Apply(w) ==
    /\ queue' = w.queue
    /\ queue_size' = w.queue_size
    /\ requests' = w.requests
    /\ transport' = w.transport
    /\ log' = w.log
    /\ error' = w.error

Callable == built = "built" /\ pc # "running" /\ ops < MaxOps

\* The configuration is set once, before any row is handed to the client.
Configurable == built = "built" /\ pc = "idle" /\ ops = 0

\* The arguments main() gives to __init__ (main.py lines 29-33), an external
\* id among them.
MainArgs ==
    [instance_url |-> << "https:", Slash, Slash, "host", Slash >>,
     object |-> ObjectName, external_id |-> "Ext_Id__c"]

\* The access token main() logs in with.
Token == "token"

\* session.headers before and after auth_session(): the two headers it sets.
NoHeaders == [Authorization |-> << >>, ContentType |-> "absent"]

AuthHeaders(token) ==
    [Authorization |-> << "Bearer ", token >>, ContentType |-> "application/json"]

\* The client __init__ builds from MainArgs, logged in as main() does, its
\* configuration then being n, a, d and t, and r the record put before the
\* encoder.
InitClient(n, a, d, t, r) ==
    /\ ctor = MainArgs
    /\ built = "built"
    /\ api_endpoint_url
           = build_api_endpoint(MainArgs.instance_url, MainArgs.object,
                                MainArgs.external_id).url
    /\ api_http_method
           = build_api_endpoint(MainArgs.instance_url, MainArgs.object,
                                MainArgs.external_id).method
    /\ access_token = Token
    /\ headers = AuthHeaders(Token)
    /\ object = ObjectName
    /\ bulk_size = n
    /\ all_or_none = a
    /\ dry_run_mode = d
    /\ req_item_json_template = t
    /\ queue = << >>
    /\ queue_size = 0
    /\ pc = "idle"
    /\ rows = << >>
    /\ pulled = 0
    /\ bulk = TRUE
    /\ check_empty_iterator = TRUE
    /\ error = "none"
    /\ requests = << >>
    /\ transport = << >>
    /\ log = << >>
    /\ run_start = 0
    /\ ops = 0
    /\ op = "init"
    /\ supplied = 0
    /\ encRow = r
    /\ encSource = r
    /\ encOut = Err("pending")

\* The caller holds the arguments args and has not yet called __init__.
InitArgs(args) ==
    /\ ctor = args
    /\ built = "pending"
    /\ api_endpoint_url = << >>
    /\ api_http_method = None
    /\ access_token = None
    /\ headers = NoHeaders
    /\ object = None
    /\ bulk_size = 0
    /\ all_or_none = Unset
    /\ dry_run_mode = FALSE
    /\ req_item_json_template = NoTemplate
    /\ queue = << >>
    /\ queue_size = 0
    /\ pc = "idle"
    /\ rows = << >>
    /\ pulled = 0
    /\ bulk = TRUE
    /\ check_empty_iterator = TRUE
    /\ error = "none"
    /\ requests = << >>
    /\ transport = << >>
    /\ log = << >>
    /\ run_start = 0
    /\ ops = 0
    /\ op = "none"
    /\ supplied = 0
    /\ encRow = << >>
    /\ encSource = << >>
    /\ encOut = Err("pending")

\* The constructor is about to be called with an object name, or with none.
Init ==
    \E o \in {ObjectName, None} : InitArgs([MainArgs EXCEPT !.object = o])

\* __init__(instance_url, object, external_id): self.object is assigned, then
\* build_api_endpoint raises or gives the URL and the verb, and the other
\* fields get their defaults.
Construct ==
    /\ built = "pending"
    /\ object' = ctor.object
    /\ LET e == build_api_endpoint(ctor.instance_url, ctor.object, ctor.external_id)
       IN  IF e.ok
           THEN /\ built' = "built"
                /\ api_endpoint_url' = e.url
                /\ api_http_method' = e.method
                /\ bulk_size' = DefaultBulkSize
                /\ error' = "none"
           ELSE /\ built' = "raised"
                /\ error' = e.err
                /\ UNCHANGED << api_endpoint_url, api_http_method, bulk_size >>
    /\ queue' = << >>
    /\ queue_size' = 0
    /\ req_item_json_template' = NoTemplate
    /\ dry_run_mode' = FALSE
    /\ access_token' = None
    /\ headers' = NoHeaders
    /\ op' = "init"
    /\ UNCHANGED << ctor, all_or_none, call, history, ops, supplied, enc >>

\* login(access_token): the token is kept and auth_session() sets the headers.
Login(token) ==
    /\ Configurable
    /\ access_token' = token
    /\ headers' = AuthHeaders(token)
    /\ op' = "login"
    /\ UNCHANGED << endpoint, config, queue, queue_size, call, error, history, ops,
                    supplied, enc >>

\* set_bulk_size(n)
SetBulkSize(n) ==
    /\ Configurable
    /\ bulk_size' = n
    /\ UNCHANGED << endpoint, auth, object, all_or_none, dry_run_mode,
                    req_item_json_template, queue, queue_size, call, error, history, ops, supplied, enc >>
    /\ op' = "set"

\* set_all_or_none(all_or_none)
SetAllOrNone(b) ==
    /\ Configurable
    /\ all_or_none' = b
    /\ UNCHANGED << endpoint, auth, object, bulk_size, dry_run_mode,
                    req_item_json_template, queue, queue_size, call, error, history, ops, supplied, enc >>
    /\ op' = "set"

\* set_dry_run_mode(dry_run_mode)
SetDryRunMode(b) ==
    /\ Configurable
    /\ dry_run_mode' = b
    /\ UNCHANGED << endpoint, auth, object, bulk_size, all_or_none,
                    req_item_json_template, queue, queue_size, call, error, history, ops, supplied, enc >>
    /\ op' = "set"

\* set_req_item_json_template(template)
SetReqItemJsonTemplate(t) ==
    /\ Configurable
    /\ req_item_json_template' = t
    /\ UNCHANGED << endpoint, auth, object, bulk_size, all_or_none, dry_run_mode,
                    queue, queue_size, call, error, history, ops, supplied, enc >>
    /\ op' = "set"

\* A direct call of reset_queue().
ResetQueue ==
    /\ Callable
    /\ Apply(reset_queue(World))
    /\ pc' = "idle"
    /\ op' = "reset_queue"
    /\ ops' = ops + 1
    /\ UNCHANGED << endpoint, auth, config, rows, pulled, bulk, check_empty_iterator,
                    run_start, supplied, enc >>

\* A direct call of queue_item_and_send_bulk_request(item), the item being
\* the next record of the caller, encoded.
Enqueue(server) ==
    /\ Callable
    /\ supplied < MaxItems
    /\ custom_json_encoder(Row(supplied + 1)).ok
    /\ Apply(queue_item_and_send_bulk_request(
                 World, custom_json_encoder(Row(supplied + 1)).d, server))
    /\ pc' = "idle"
    /\ op' = "enqueue"
    /\ ops' = ops + 1
    /\ supplied' = supplied + 1
    /\ UNCHANGED << endpoint, auth, config, rows, pulled, bulk, check_empty_iterator,
                    run_start, enc >>

\* A direct call of flush().
Flush(server) ==
    /\ Callable
    /\ Apply(flush(World, server))
    /\ pc' = "idle"
    /\ op' = "flush"
    /\ ops' = ops + 1
    /\ UNCHANGED << endpoint, auth, config, rows, pulled, bulk, check_empty_iterator,
                    run_start, supplied, enc >>

\* A direct call of send_bulk_request(records).
SendBulkRequest(records, server) ==
    /\ Callable
    /\ Apply(send_bulk_request(World, records, server))
    /\ pc' = "idle"
    /\ op' = "send_bulk_request"
    /\ ops' = ops + 1
    /\ UNCHANGED << endpoint, auth, config, rows, pulled, bulk, check_empty_iterator,
                    run_start, supplied, enc >>

\* send_all_rows(rows, bulk) is entered with a source of m rows.
SendAllRowsCall(m, b) ==
    /\ Callable
    /\ rows' = [i \in 1..m |-> Row(supplied + i)]
    /\ supplied' = supplied + m
    /\ bulk' = b
    /\ pulled' = 0
    /\ check_empty_iterator' = TRUE
    /\ run_start' = Len(requests)
    /\ pc' = "running"
    /\ error' = "none"
    /\ ops' = ops + 1
    /\ op' = "send_all_rows"
    /\ UNCHANGED << endpoint, auth, config, queue, queue_size, history, enc >>

\* The loop of send_all_rows going on to the next row when the encoder raises.
SendAllRowsStep_skip(server) ==
    /\ pc = "running"
    /\ pulled < Len(rows)
    /\ LET v == custom_json_encoder(rows[pulled + 1])
           w == IF ~v.ok THEN World
                ELSE IF bulk THEN queue_item_and_send_bulk_request(World, v.d, server)
                ELSE send_single_request(World, v.d, server)
       IN  /\ Apply(w)
           /\ pc' = IF w.error # "none" THEN "raised" ELSE "running"
    /\ pulled' = pulled + 1
    /\ check_empty_iterator' = FALSE
    /\ UNCHANGED << endpoint, auth, config, rows, bulk, run_start, ops, op, supplied, enc >>

\* The loop of send_all_rows pulling one row more than the one it handles.
SendAllRowsStep_ahead(server) ==
    /\ pc = "running"
    /\ pulled < Len(rows)
    /\ LET v == custom_json_encoder(rows[pulled + 1])
           w == IF ~v.ok THEN Raised(World, v.err)
                ELSE IF bulk THEN queue_item_and_send_bulk_request(World, v.d, server)
                ELSE send_single_request(World, v.d, server)
       IN  /\ Apply(w)
           /\ pc' = IF w.error # "none" THEN "raised" ELSE "running"
    /\ pulled' = IF pulled + 2 <= Len(rows) THEN pulled + 2 ELSE Len(rows)
    /\ check_empty_iterator' = FALSE
    /\ UNCHANGED << endpoint, auth, config, rows, bulk, run_start, ops, op, supplied, enc >>

\* The loop of send_all_rows emptying the queue when the encoder raises.
SendAllRowsStep_drop(server) ==
    /\ pc = "running"
    /\ pulled < Len(rows)
    /\ LET v == custom_json_encoder(rows[pulled + 1])
           w == IF ~v.ok THEN Raised(reset_queue(World), v.err)
                ELSE IF bulk THEN queue_item_and_send_bulk_request(World, v.d, server)
                ELSE send_single_request(World, v.d, server)
       IN  /\ Apply(w)
           /\ pc' = IF w.error # "none" THEN "raised" ELSE "running"
    /\ pulled' = pulled + 1
    /\ check_empty_iterator' = FALSE
    /\ UNCHANGED << endpoint, auth, config, rows, bulk, run_start, ops, op, supplied, enc >>

\* One turn of the loop of send_all_rows: the next row is pulled, encoded,
\* and enqueued or sent on its own.
SendAllRowsStep(server) ==
    /\ pc = "running"
    /\ pulled < Len(rows)
    /\ LET v == custom_json_encoder(rows[pulled + 1])
           w == IF ~v.ok THEN Raised(World, v.err)
                ELSE IF bulk THEN queue_item_and_send_bulk_request(World, v.d, server)
                ELSE send_single_request(World, v.d, server)
       IN  /\ Apply(w)
           /\ pc' = IF w.error # "none" THEN "raised" ELSE "running"
    /\ pulled' = pulled + 1
    /\ check_empty_iterator' = FALSE
    /\ UNCHANGED << endpoint, auth, config, rows, bulk, run_start, ops, op, supplied, enc >>

\* The end of send_all_rows putting the bulk size back to its default.
SendAllRowsReturn_default_bulk_size(server) ==
    /\ pc = "running"
    /\ pulled = Len(rows)
    /\ LET w0 == IF check_empty_iterator
                 THEN Logged(World, << [level |-> "info", msg |-> "No record to send"] >>)
                 ELSE World
           w == flush(w0, server)
       IN  /\ Apply(w)
           /\ pc' = IF w.error # "none" THEN "raised" ELSE "done"
    /\ bulk_size' = DefaultBulkSize
    /\ UNCHANGED << endpoint, auth, object, all_or_none, dry_run_mode,
                    req_item_json_template, rows, pulled, bulk, check_empty_iterator,
                    run_start, ops, op, supplied, enc >>

\* The source is exhausted: the empty-source notice, then flush().
SendAllRowsReturn(server) ==
    /\ pc = "running"
    /\ pulled = Len(rows)
    /\ LET w0 == IF check_empty_iterator
                 THEN Logged(World, << [level |-> "info", msg |-> "No record to send"] >>)
                 ELSE World
           w == flush(w0, server)
       IN  /\ Apply(w)
           /\ pc' = IF w.error # "none" THEN "raised" ELSE "done"
    /\ UNCHANGED << endpoint, auth, config, rows, pulled, bulk, check_empty_iterator,
                    run_start, ops, op, supplied, enc >>

\* set_session(custom_session), the session given being a new
\* requests.Session(): self.session is replaced and auth_session() is not
\* called, so the headers of the client's session are those of the new one.
SetSession ==
    /\ Configurable
    /\ headers' = NoHeaders
    /\ op' = "set_session"
    /\ UNCHANGED << endpoint, access_token, config, queue, queue_size, call, error,
                    history, ops, supplied, enc >>

\* No template, under which no row fails, and the template under which some
\* rows fail.
RowTemplates == {NoTemplate, "quoted"}

Next ==
    \/ Construct
    \/ Login(Token)
    \/ SetSession
    \/ \E n \in BulkSizes : SetBulkSize(n)
    \/ \E b \in AllOrNoneValues : SetAllOrNone(b)
    \/ \E b \in BOOLEAN : SetDryRunMode(b)
    \/ \E t \in RowTemplates : SetReqItemJsonTemplate(t)
    \/ ResetQueue
    \/ \E server \in PlainServers : Enqueue(server)
    \/ \E server \in PlainServers : Flush(server)
    \/ \E server \in PlainServers : SendBulkRequest(<< >>, server)
    \/ \E m \in 0..(MaxItems - supplied), b \in BOOLEAN : SendAllRowsCall(m, b)
    \/ \E server \in PlainServers : SendAllRowsStep(server)
    \/ \E server \in PlainServers : SendAllRowsReturn(server)

\* Any sequence of operations on one client.
Spec == Init /\ [][Next]_vars

\* One send_all_rows call on a client constructed and configured as main()
\* does (main.py lines 29-39), whatever the options given.
InitRun ==
    \E n \in BulkSizes, a \in AllOrNoneValues, d \in BOOLEAN,
       t \in {NoTemplate} \cup Templates :
        InitClient(n, a, d, t, << >>)

\* The one call main() makes (main.py line 50); the bulk argument is left
\* open so that the single-record mode of send_all_rows is covered too.
MainSendAllRows(m, b) == ops = 0 /\ SendAllRowsCall(m, b)

NextRun ==
    \/ \E m \in 0..MaxRows, b \in BOOLEAN : MainSendAllRows(m, b)
    \/ \E server \in Servers(bulk_size) : SendAllRowsStep(server)
    \/ \E server \in Servers(bulk_size) : SendAllRowsReturn(server)

SpecRun == InitRun /\ [][NextRun]_vars

\* A turn of the loop of send_all_rows, or its end.
RunStep ==
    \/ \E server \in Servers(bulk_size) : SendAllRowsStep(server)
    \/ \E server \in Servers(bulk_size) : SendAllRowsReturn(server)

\* The call of main(), run by an interpreter that goes on to the next
\* statement as long as there is one: weak fairness of RunStep, that is
\* WF_vars(RunStep), written out with what ENABLED <<RunStep>>_vars comes
\* to: a turn or the end is possible exactly while the call is running,
\* since one of pulled < Len(rows) and pulled = Len(rows) holds then.
SpecRunFair ==
    /\ SpecRun
    /\ ([]<>(pc # "running") \/ []<><<RunStep>>_vars)

\* -------------------------------------- send_all_rows called again and again

\* send_all_rows is called on a client whose earlier calls have all returned.
SendAllRowsAgain(m, b) == pc # "raised" /\ SendAllRowsCall(m, b)

NextCalls ==
    \/ \E m \in 0..(MaxItems - supplied), b \in BOOLEAN : SendAllRowsAgain(m, b)
    \/ \E server \in PlainServers : SendAllRowsStep(server)
    \/ \E server \in PlainServers : SendAllRowsReturn(server)

\* One client, set up as main() does, whose only use is send_all_rows.
SpecCalls == InitRun /\ [][NextCalls]_vars

\* ------------------------------------------------- bulk sizes of 1 and less

\* Bulk sizes set_bulk_size is given that are not above 1: int() of the
\* command-line argument may be any integer.
SmallBulkSizes == {-1, 0, 1}

\* The client as constructed (bulk size 200), flag and dry-run mode set.
InitSmallBulk ==
    \E a \in AllOrNoneValues, d \in BOOLEAN :
        InitClient(DefaultBulkSize, a, d, NoTemplate, << >>)

NextSmallBulk ==
    \/ \E n \in SmallBulkSizes : SetBulkSize(n)
    \/ \E server \in PlainServers : Enqueue(server)
    \/ \E server \in PlainServers : Flush(server)
    \/ \E m \in 0..(MaxItems - supplied) : SendAllRowsCall(m, TRUE)
    \/ \E server \in PlainServers : SendAllRowsStep(server)
    \/ \E server \in PlainServers : SendAllRowsReturn(server)

\* A client whose bulk size is set to 1 or less before it is given rows.
SpecSmallBulk == InitSmallBulk /\ [][NextSmallBulk]_vars

\* ------------------------------------------------ the constructor on its own

RECURSIVE Slashes(_)
\* The text of n slashes.
Slashes(n) == IF n = 0 THEN << >> ELSE << Slash >> \o Slashes(n - 1)

\* Base instance URLs: nothing, a host, or a host and a path, followed by
\* at most MaxSlashes slashes.
BaseUrls ==
    { h \o Slashes(n) :
        h \in { << >>, << "https:", Slash, Slash, "host" >>,
                << "https:", Slash, Slash, "host", Slash, "org" >> },
        n \in 0..MaxSlashes }

ObjectNames == {None, "Account", "Contact"}

ExternalIds == {None, "", "Ext_Id__c"}

InitEndpoint ==
    \E u \in BaseUrls, o \in ObjectNames, x \in ExternalIds :
        InitArgs([instance_url |-> u, object |-> o, external_id |-> x])

\* The constructor called with any of these arguments.
SpecEndpoint == InitEndpoint /\ [][Construct]_vars

\* ------------------------------------------------- the encoder on its own

EncoderKeys ==
    { << "Name" >>, << "Owner" >>, << "Owner", Separator, "Id" >>,
      << "Owner", Separator, "Name" >>,
      << "Owner", Separator, "Manager", Separator, "Id" >>,
      Attributes, << "attributes", Separator, "type" >>,
      << "attributes", Separator, "type", Separator, "x" >> }

EncoderValues == { Scalar("x"), Mapping(<< [k |-> Type, v |-> Scalar("y")] >>) }

\* The records of at most MaxFields fields over these keys and values.
Records ==
    UNION { { r \in [1..n -> [k : EncoderKeys, v : EncoderValues]] :
                \A i, j \in 1..n : r[i].k = r[j].k => i = j } : n \in 0..MaxFields }

InitEncoder ==
    \E t \in {NoTemplate} \cup Templates, r \in Records :
        InitClient(DefaultBulkSize, Unset, FALSE, t, r)

\* custom_json_encoder is applied to the record.
Encode ==
    /\ encOut = Err("pending")
    /\ encOut' = custom_json_encoder(encRow)
    /\ encSource' = custom_json_encoder_source(encRow)
    /\ UNCHANGED << endpoint, auth, config, queue, queue_size, call, error, history,
                    ops, op, supplied, encRow >>

SpecEncoder == InitEncoder /\ [][Encode]_vars

\* ------------------------------------------------------------- properties

\* The batches submitted since the current send_all_rows call began.
RunBatches ==
    [i \in 1..(Len(requests) - run_start) |->
        json_loads(requests[run_start + i]).records]

RECURSIVE Concat(_)
Concat(ss) == IF ss = << >> THEN << >> ELSE Head(ss) \o Concat(Tail(ss))

RECURSIVE Sum(_)
Sum(ns) == IF ns = << >> THEN 0 ELSE Head(ns) + Sum(Tail(ns))

CeilDiv(m, n) == (m + n - 1) \div n

Entries(msg) == SelectSeq(log, LAMBDA e : e.msg = msg)

\* C1: a bulk-mode run of M rows with bulk size N >= 1 that returns normally
\* has submitted ceil(M/N) batches, the last of M mod N items (N when N
\* divides M), and none at all when M = 0.
BatchCount ==
    (pc = "done" /\ bulk /\ bulk_size >= 1) =>
        LET M == Len(rows)
            N == bulk_size
        IN  /\ Len(RunBatches) = CeilDiv(M, N)
            /\ M > 0 => Len(RunBatches[Len(RunBatches)])
                            = (IF M % N = 0 THEN N ELSE M % N)

BatchCountWitness ==
    /\ pc = "done" /\ bulk /\ ~dry_run_mode
    /\ Len(rows) = 5 /\ bulk_size = 2
    /\ Len(RunBatches) = 3
    /\ Len(RunBatches[3]) = 1

\* C2: when send_all_rows on a fresh client returns, the batches submitted,
\* concatenated in submission order, are the encoded rows in source order,
\* each exactly once.
NoItemLost ==
    pc = "done" =>
        Concat(RunBatches) = [i \in 1..Len(rows) |-> custom_json_encoder(rows[i]).d]

NoItemLostWitness ==
    /\ pc = "done" /\ bulk
    /\ Len(rows) = 5 /\ bulk_size = 3
    /\ Len(RunBatches) = 2
    /\ Len(Concat(RunBatches)) = 5

\* C3: a step taken in dry-run mode never invokes session.send, whatever the
\* operation and the size of the batch, the empty batch included.
DryRunNeverSends == [][dry_run_mode => transport' = transport]_vars

DryRunNeverSendsWitness ==
    /\ dry_run_mode
    /\ transport = << >>
    /\ \E i, j \in 1..Len(requests) :
        /\ json_loads(requests[i]).records = << >>
        /\ json_loads(requests[j]).records # << >>

\* C4: a send that obtains no response does not abort the run.
TransportFailureNonFatal ==
    (\E i \in 1..Len(transport) : transport[i].answer = "exception") =>
        pc # "raised"

\* C5: when flush() returns, the queue is empty.
FlushClears == (op = "flush" /\ error = "none") => (queue = << >> /\ queue_size = 0)

\* C6: every item the encoder returns has attributes.type equal to the
\* object name of the client.
EncoderInjectsType ==
    encOut.ok =>
        /\ HasKey(encOut.d, Attributes)
        /\ DictGet(encOut.d, Attributes).t = "dict"
        /\ HasKey(DictGet(encOut.d, Attributes).d, Type)
        /\ DictGet(DictGet(encOut.d, Attributes).d, Type) = Scalar(object)

\* C7: a run over an empty row source makes no request and logs one
\* "No record to send" notice.
EmptySource ==
    (pc = "done" /\ rows = << >>) =>
        /\ transport = << >>
        /\ requests = << >>
        /\ Len(Entries("No record to send")) + Len(Entries("[DRY RUN] No record to send")) = 1

EmptySourceWitness ==
    /\ pc = "done" /\ rows = << >> /\ ~dry_run_mode
    /\ log = << [level |-> "info", msg |-> "No record to send"] >>

\* C8: while the source is not exhausted, every batch submitted holds
\* exactly bulk_size items and a submission happens only on the enqueue that
\* brings the queue to bulk_size.
MidStreamBatches ==
    (pc = "running" /\ bulk) =>
        /\ \A i \in 1..Len(RunBatches) : Len(RunBatches[i]) = bulk_size
        /\ Len(RunBatches) * bulk_size + Len(queue) = pulled
        /\ Len(queue) < bulk_size

MidStreamBatchesWitness ==
    /\ pc = "running" /\ bulk
    /\ bulk_size = 2 /\ pulled = 3
    /\ Len(RunBatches) = 1 /\ Len(queue) = 1

\* C9: in single-record mode every row pulled has been submitted as a batch
\* of its own and the queue is empty.
SingleModeSendsEach ==
    (pc # "idle" /\ ~bulk /\ req_item_json_template = NoTemplate) =>
        /\ Len(RunBatches) = pulled
        /\ \A i \in 1..Len(RunBatches) : Len(RunBatches[i]) = 1
        /\ queue = << >>

\* The 200 responses received, in order.
OkResponses == SelectSeq(transport, LAMBDA t : t.answer = "ok")

Failures(p) == SelectSeq(p, LAMBDA r : r.success # "true")

\* C10: for the k-th 200 response the k-th summary reports the number of
\* outcomes flagged true and the length of the list; the warnings are the
\* outcomes not flagged true, each once and in order; and a run all of whose
\* requests got a 200 response is not aborted.
ResponseCounts ==
    LET sent == Entries("request sent")
        warned == Entries("error when sending")
    IN  /\ Len(sent) = Len(OkResponses)
        /\ \A k \in 1..Len(sent) :
            /\ sent[k].success_n
                   = Cardinality({i \in 1..Len(OkResponses[k].outcomes) :
                                      OkResponses[k].outcomes[i].success = "true"})
            /\ sent[k].total = Len(OkResponses[k].outcomes)
        /\ [i \in 1..Len(warned) |-> warned[i].outcome]
               = Concat([k \in 1..Len(OkResponses) |-> Failures(OkResponses[k].outcomes)])
        /\ (bulk /\ Len(OkResponses) = Len(transport)
                 /\ req_item_json_template = NoTemplate) => pc # "raised"

ResponseCountsWitness ==
    /\ pc = "done" /\ bulk
    /\ Len(rows) = 5 /\ bulk_size = 2
    /\ Len(transport) = 3 /\ Len(OkResponses) = 3
    /\ Sum([k \in 1..3 |-> Entries("request sent")[k].success_n]) = 3
    /\ Len(Entries("error when sending")) = 2

\* The responses received whose status is not 200, in order.
OtherResponses == SelectSeq(transport, LAMBDA t : t.answer = "status")

\* C11: for every response whose status is not 200 one warning that carries
\* the body and the status code of the response is logged, no summary or
\* per-record warning is logged for it, and the run goes on.
StatusWarning ==
    LET warned == Entries("error when sending the rows")
    IN  /\ Len(warned) = Len(OtherResponses)
        /\ \A i \in 1..Len(warned) :
            /\ warned[i].level = "warning"
            /\ \E a \in 1..Len(warned[i].args) :
                   warned[i].args[a]
                       = [content |-> ErrorContent, status_code |-> OtherStatus]
        /\ Len(Entries("request sent")) = Len(OkResponses)
        /\ (bulk /\ Len(OkResponses) + Len(OtherResponses) = Len(transport)
                 /\ req_item_json_template = NoTemplate) => pc # "raised"

\* The last n chunks of a text.
Suffix(text, n) == SubSeq(text, Len(text) - n + 1, Len(text))

\* C12: an external id that is not empty resolves to PATCH and a URL whose
\* path holds the object name and the external id after the collection;
\* no external id, or an empty one, resolves to POST and the bare collection
\* URL, which holds neither.
EndpointVerb ==
    built = "built" =>
        IF ctor.external_id # None /\ ctor.external_id # ""
        THEN /\ api_http_method = "PATCH"
             /\ Len(api_endpoint_url) >= Len(CollectionPath) + 4
             /\ Suffix(api_endpoint_url, 4)
                    = << Slash, ctor.object, Slash, ctor.external_id >>
             /\ Suffix(SubSeq(api_endpoint_url, 1, Len(api_endpoint_url) - 4),
                       Len(CollectionPath)) = CollectionPath
        ELSE /\ api_http_method = "POST"
             /\ Len(api_endpoint_url) >= Len(CollectionPath)
             /\ Suffix(api_endpoint_url, Len(CollectionPath)) = CollectionPath
             /\ \A i \in 1..Len(api_endpoint_url) :
                    api_endpoint_url[i] \notin {ctor.object, "Ext_Id__c"}

EndpointVerbWitness ==
    /\ built = "built"
    /\ ctor.object = "Contact"
    /\ ctor.external_id = ""
    /\ api_http_method = "POST"
    /\ api_endpoint_url[Len(api_endpoint_url)] = "sobjects"

\* C13: once the constructor has resolved the endpoint, no step changes the
\* URL, the verb or the object name, and every request a step announces or
\* sends goes to that URL with that verb.
EndpointFixed ==
    [][/\ built = "built" =>
              /\ api_endpoint_url' = api_endpoint_url
              /\ api_http_method' = api_http_method
              /\ object' = object
       /\ \A i \in (Len(transport) + 1)..Len(transport') :
              /\ transport'[i].url = api_endpoint_url'
              /\ transport'[i].method = api_http_method'
       /\ \A i \in (Len(log) + 1)..Len(log') :
              log'[i].msg = "Sending a HTTP request" =>
                  /\ log'[i].url = api_endpoint_url'
                  /\ log'[i].method = api_http_method']_vars

EndpointFixedWitness ==
    /\ built = "built"
    /\ access_token = Token
    /\ bulk_size = 1
    /\ op = "flush"
    /\ Len(transport) = 3
    /\ \A i \in 1..3 : transport[i].url = api_endpoint_url /\ transport[i].method = "PATCH"

\* The URL has an empty path segment right before "/services".
EmptySegment(url) ==
    \E i \in 1..(Len(url) - 2) :
        url[i] = Slash /\ url[i + 1] = Slash /\ url[i + 2] = "services"

EndsWithSlash(url) == url # << >> /\ url[Len(url)] = Slash

\* What the constructor resolves from the base URL u and its other arguments.
Resolved(u) == build_api_endpoint(u, ctor.object, ctor.external_id)

\* C14 as stated: for every base URL u, u with a slash appended resolves to
\* the URL and the verb u resolves to, and the resolved URL has no empty
\* path segment before "/services".
TrailingSlashNormalized ==
    built = "built" =>
        /\ Resolved(ctor.instance_url \o << Slash >>).url = api_endpoint_url
        /\ Resolved(ctor.instance_url \o << Slash >>).method = api_http_method
        /\ ~EmptySegment(api_endpoint_url)

\* C14: one slash at the end of the base URL is removed. For every base URL
\* u that does not end with a slash, u with a slash appended resolves to the
\* URL and the verb u resolves to, and neither has an empty path segment
\* before "/services"; of the slashes a base URL ends with, all but the last
\* stay in the resolved URL.
TrailingSlashOnce ==
    built = "built" =>
        LET u == ctor.instance_url
        IN  /\ ~EndsWithSlash(u) =>
                /\ Resolved(u \o << Slash >>).url = api_endpoint_url
                /\ Resolved(u \o << Slash >>).method = api_http_method
                /\ ~EmptySegment(api_endpoint_url)
            /\ EndsWithSlash(u) =>
                /\ SubSeq(api_endpoint_url, 1, Len(u) + 1)
                       = SubSeq(u, 1, Len(u) - 1) \o << Slash, "services" >>
                /\ EmptySegment(api_endpoint_url)
                       <=> EndsWithSlash(SubSeq(u, 1, Len(u) - 1))

TrailingSlashOnceWitness ==
    /\ built = "built"
    /\ ctor.instance_url = << "https:", Slash, Slash, "host", Slash >>
    /\ SubSeq(api_endpoint_url, 1, 6)
           = << "https:", Slash, Slash, "host", Slash, "services" >>

\* C15: when the encoder fails on row k, send_all_rows raises that error at
\* once: row k is the last row pulled, and the batches submitted are the full
\* batches of the rows before k, with no batch for the rows still queued.
AbortOnEncoderError ==
    \A k \in 1..pulled :
        ~custom_json_encoder(rows[k]).ok =>
            /\ pc = "raised"
            /\ error = custom_json_encoder(rows[k]).err
            /\ pulled = k
            /\ Len(RunBatches) = (k - 1) \div bulk_size
            /\ Len(queue) = (k - 1) % bulk_size

AbortOnEncoderErrorWitness ==
    /\ pc = "raised" /\ bulk
    /\ req_item_json_template = "quoted"
    /\ Len(rows) = 5 /\ bulk_size = 2
    /\ pulled = 3
    /\ error = "Exception"
    /\ Len(RunBatches) = 1

\* C16: with a template, the encoder fails with the error of the rendering
\* when template.render raises, and with the error that tells of malformed
\* template output whenever the rendered text is not a JSON object: no JSON
\* at all, a JSON list or a JSON scalar.
TemplateErrorKinds ==
    (req_item_json_template # NoTemplate /\ encOut # Err("pending")) =>
        LET l == render_and_load(req_item_json_template, encRow)
            renderRaises == ~l.ok /\ l.err = "UndefinedError"
            notAnObject == ~renderRaises /\ (~l.ok \/ l.v.t # "dict")
        IN  /\ renderRaises => encOut = Err("UndefinedError")
            /\ notAnObject => encOut = Err("Exception")

\* C17: a client constructed with no object name is never built: __init__
\* raises, and no row is pulled, no request is made and nothing is sent.
NoObjectNoClient ==
    ctor.object = None =>
        /\ built # "built"
        /\ built = "raised" => error = "Exception"
        /\ pulled = 0 /\ supplied = 0
        /\ requests = << >>
        /\ transport = << >>

NoObjectNoClientWitness ==
    /\ ctor.object = None
    /\ built = "raised"
    /\ op = "init"
    /\ error = "Exception"
    /\ api_endpoint_url = << >>

\* No key of the record holds the separator.
FlatKeys(r) == \A i \in 1..Len(r) : \A j \in 1..Len(r[i].k) : r[i].k[j] # Separator

\* The item is the record and one field more, "attributes" with the object
\* name as its type, and every field of the record has kept its value.
RecordPlusType(r, item) ==
    /\ Len(item) = Len(r) + 1
    /\ \A i \in 1..Len(r) : HasKey(item, r[i].k) /\ DictGet(item, r[i].k) = r[i].v
    /\ HasKey(item, Attributes)
    /\ DictGet(item, Attributes) = Mapping(<< [k |-> Type, v |-> Scalar(object)] >>)

\* C18 as stated: with no template, a record none of whose keys holds the
\* separator is encoded to itself plus the one "attributes" field.
RoundTrip ==
    (req_item_json_template = NoTemplate /\ encOut # Err("pending") /\ FlatKeys(encRow)) =>
        encOut.ok /\ RecordPlusType(encRow, encOut.d)

\* C18: with no template, a record none of whose keys holds the separator
\* and none of whose keys is "attributes" is encoded to itself plus the one
\* "attributes" field; a field named "attributes" is replaced instead.
RoundTripWithoutType ==
    (req_item_json_template = NoTemplate /\ encOut # Err("pending") /\ FlatKeys(encRow)) =>
        /\ encOut.ok
        /\ IF HasKey(encRow, Attributes)
           THEN /\ Len(encOut.d) = Len(encRow)
                /\ DictGet(encOut.d, Attributes)
                       = Mapping(<< [k |-> Type, v |-> Scalar(object)] >>)
           ELSE RecordPlusType(encRow, encOut.d)

RoundTripWithoutTypeWitness ==
    /\ req_item_json_template = NoTemplate
    /\ encRow = << [k |-> << "Owner" >>, v |-> Mapping(<< [k |-> Type, v |-> Scalar("y")] >>)],
                   [k |-> << "Name" >>, v |-> Scalar("x")] >>
    /\ encOut.ok
    /\ Len(encOut.d) = 3
    /\ encOut.d[3].k = Attributes

\* The record unflatten is given: the record with its "attributes" field.
WithType(r) == DictSet(r, Attributes, Mapping(<< [k |-> Type, v |-> Scalar(object)] >>))

\* No key of the record is, as a path, the beginning of another key.
PrefixFree(r) ==
    \A i, j \in 1..Len(r) :
        ~IsPrefix(split(r[i].k, Separator), split(r[j].k, Separator))

RECURSIVE SameDict(_, _)
\* The two mappings have the same keys and values, in whatever order.
SameDict(a, b) ==
    /\ Len(a) = Len(b)
    /\ \A i \in 1..Len(a) :
        /\ HasKey(b, a[i].k)
        /\ LET x == a[i].v
               y == DictGet(b, a[i].k)
           IN  IF x.t = "dict" /\ y.t = "dict" THEN SameDict(x.d, y.d) ELSE x = y

\* C19: in the item of a record no key of which begins another, every value
\* is found by following the segments of its key through nested mappings,
\* keys that share a first segment share one top-level field, and the item
\* is the same whatever the order of the fields of the record.
DottedKeysNest ==
    (req_item_json_template \in {NoTemplate, "obj"} /\ encOut # Err("pending")
        /\ PrefixFree(WithType(encRow))) =>
        LET r == WithType(encRow)
        IN  /\ encOut.ok
            /\ \A i \in 1..Len(r) :
                   PathGet(encOut.d, split(r[i].k, Separator))
                       = [found |-> TRUE, v |-> r[i].v]
            /\ Len(encOut.d)
                   = Cardinality({ split(r[i].k, Separator)[1] : i \in 1..Len(r) })
            /\ \A p \in Permutations(1..Len(encRow)) :
                   LET e == custom_json_encoder([i \in 1..Len(encRow) |-> encRow[p[i]]])
                   IN  e.ok /\ SameDict(e.d, encOut.d) /\ SameDict(encOut.d, e.d)

DottedKeysNestWitness ==
    /\ req_item_json_template = NoTemplate
    /\ encRow = << [k |-> << "Owner", Separator, "Manager", Separator, "Id" >>,
                    v |-> Scalar("x")],
                   [k |-> << "Owner", Separator, "Id" >>, v |-> Scalar("x")] >>
    /\ encOut.ok
    /\ Len(encOut.d) = 2
    /\ PathGet(encOut.d, << << "Owner" >>, << "Manager" >>, << "Id" >> >>)
           = [found |-> TRUE, v |-> Scalar("x")]
    /\ PathGet(encOut.d, << << "Owner" >>, << "Id" >> >>)
           = [found |-> TRUE, v |-> Scalar("x")]

\* C20: every step that submits a request submits one, whose body has the
\* two fields allOrNone and records: allOrNone is the flag of the client and
\* records is the queue at that moment, the item just enqueued last.
BodyShape ==
    [][requests' # requests =>
          /\ Len(requests') = Len(requests) + 1
          /\ SubSeq(requests', 1, Len(requests)) = requests
          /\ LET b == json_loads(requests'[Len(requests')])
             IN  /\ DOMAIN b = {"allOrNone", "records"}
                 /\ b.allOrNone = all_or_none
                 /\ b.records
                        = IF pulled' > pulled
                          THEN Append(queue, custom_json_encoder(rows[pulled']).d)
                          ELSE queue]_vars

BodyShapeWitness ==
    /\ pc = "done" /\ bulk
    /\ all_or_none = "True"
    /\ Len(rows) = 5 /\ bulk_size = 3
    /\ Len(RunBatches) = 2
    /\ json_loads(requests[2])
           = [allOrNone |-> "True",
              records |-> << custom_json_encoder(rows[4]).d, custom_json_encoder(rows[5]).d >>]

\* C21: once login was called, every request given to the transport carries
\* Authorization: Bearer <token> and Content-Type: application/json,
\* whatever the set-up operations before the first send.
AuthHeadersCarried ==
    access_token # None =>
        \A i \in 1..Len(transport) : transport[i].headers = AuthHeaders(access_token)

\* The entries a step has added to the log after its "Sending a HTTP
\* request" entry.
Report ==
    LET new == SubSeq(log', Len(log) + 1, Len(log'))
        j == CHOOSE i \in 1..Len(new) : new[i].msg = "Sending a HTTP request"
    IN  SubSeq(new, j + 1, Len(new))

\* C22: a step that submits a batch in dry-run mode reports it in full: for
\* k > 0 items one summary with k and the all-or-none flag, then k item
\* entries with the items in batch order; for no item, the one "no record to
\* send" notice.
DryRunReportsBatch ==
    [][(dry_run_mode /\ requests' # requests) =>
          LET b == json_loads(requests'[Len(requests')])
              k == Len(b.records)
          IN  IF k > 0
              THEN /\ Len(Report) = k + 1
                   /\ Report[1] = [level |-> "info", msg |-> "[DRY RUN] Would have sent",
                                    total |-> k, allOrNone |-> all_or_none]
                   /\ \A i \in 1..k :
                          Report[i + 1] = [level |-> "info", msg |-> "[DRY RUN] Record",
                                           index |-> i, total |-> k,
                                           record |-> b.records[i]]
              ELSE Report = << [level |-> "info", msg |-> "[DRY RUN] No record to send"] >>]_vars

DryRunReportsBatchWitness ==
    /\ dry_run_mode
    /\ Len(Entries("[DRY RUN] No record to send")) = 1
    /\ Len(Entries("[DRY RUN] Would have sent")) = 1
    /\ Len(Entries("[DRY RUN] Record")) = 2
    /\ Entries("[DRY RUN] Record")[2].index = 2

RECURSIVE Reported(_, _)
\* The batches a dry run has reported: for each summary in sums, its flag and
\* the records of the item entries that follow it in recs.
Reported(sums, recs) ==
    IF sums = << >> THEN << >>
    ELSE LET k == Head(sums).total
         IN  << [allOrNone |-> Head(sums).allOrNone,
                 records |-> [i \in 1..k |-> recs[i].record]] >>
             \o Reported(Tail(sums), SubSeq(recs, k + 1, Len(recs)))

\* The rows pulled so far that the encoder accepted.
Accepted ==
    IF pulled > 0 /\ ~custom_json_encoder(rows[pulled]).ok THEN pulled - 1 ELSE pulled

Min(a, b) == IF a < b THEN a ELSE b

\* The batches due for the rows accepted so far: the flag of the client and
\* the items bulk_size at a time, the rest as a last batch once the run is over.
DueBatches ==
    LET N == bulk_size
        n == Accepted
    IN  [j \in 1..(IF pc = "done" THEN CeilDiv(n, N) ELSE n \div N) |->
            [allOrNone |-> all_or_none,
             records |-> [i \in 1..(Min(j * N, n) - (j - 1) * N) |->
                             custom_json_encoder(rows[(j - 1) * N + i]).d]]]

\* C23: for the same rows and configuration a dry run reports the batches a
\* live run all of whose requests get a 200 response hands to the transport:
\* both are the batches due, with their items, order and flag.
DryRunMatchesLive ==
    (bulk /\ Len(OkResponses) = Len(transport)) =>
        IF dry_run_mode
        THEN Reported(Entries("[DRY RUN] Would have sent"), Entries("[DRY RUN] Record"))
                 = DueBatches
        ELSE [i \in 1..Len(transport) |-> json_loads(transport[i].body)] = DueBatches

DryRunMatchesLiveWitness ==
    /\ dry_run_mode /\ bulk /\ pc = "done"
    /\ all_or_none = "False"
    /\ Len(rows) = 5 /\ bulk_size = 2
    /\ Len(Entries("[DRY RUN] Would have sent")) = 3
    /\ Len(Entries("[DRY RUN] Record")) = 5

\* C24: when the row a step enqueues triggers a submission, the queue is
\* empty once the step is over, whatever the answer to the request.
QueueClearedOnSubmit ==
    [][(requests' # requests /\ pulled' > pulled) =>
          (queue' = << >> /\ queue_size' = 0)]_vars

\* C25: with the bulk size set to N >= 1, the queue never holds more than N
\* items and no batch of more than N items is submitted, whatever the
\* operations performed.
QueueBounded ==
    (built = "built" /\ all_or_none # Unset /\ bulk_size >= 1) =>
        /\ Len(queue) <= bulk_size
        /\ \A i \in 1..Len(requests) : Len(json_loads(requests[i]).records) <= bulk_size

\* C26: the loop pulls one row a turn, in source order, and handles the row
\* it pulled; when a turn submits the j-th batch of the run, j * bulk_size
\* rows have been pulled, no more.
LazyPull ==
    [][pulled' > pulled =>
          /\ pulled' = pulled + 1
          /\ rows' = rows
          /\ (bulk /\ error' = "none") =>
                 LET item == custom_json_encoder(rows[pulled']).d
                 IN  IF requests' # requests
                     THEN LET sent == json_loads(requests'[Len(requests')]).records
                          IN  sent[Len(sent)] = item
                     ELSE queue'[Len(queue')] = item
          /\ requests' # requests =>
                 pulled' = (Len(requests') - run_start') * bulk_size]_vars

LazyPullWitness ==
    /\ pc = "running" /\ bulk
    /\ Len(rows) = 5 /\ bulk_size = 2
    /\ pulled = 4
    /\ Len(RunBatches) = 2
    /\ queue = << >>

\* Where the log holds the "Sending a HTTP request" entries, in order.
SendingAt ==
    SelectSeq([i \in 1..Len(log) |-> i],
              LAMBDA i : log[i].msg = "Sending a HTTP request")

\* The entries logged between the i-th request and the next one.
Segment(i) ==
    SubSeq(log, SendingAt[i] + 1,
           IF i < Len(SendingAt) THEN SendingAt[i + 1] - 1 ELSE Len(log))

Count(entries, msg) == Len(SelectSeq(entries, LAMBDA e : e.msg = msg))

\* C27: submissions follow one another: every request made has been carried
\* to its end (report of the dry run, or answer of the transport and its
\* interpretation) before the next request is made and before the run pulls
\* a further row, so that no state holds a request without its outcome.
Sequential ==
    /\ Len(SendingAt) = Len(requests)
    /\ ~dry_run_mode => Len(transport) = Len(requests)
    /\ \A i \in 1..Len(requests) :
        LET k == Len(json_loads(requests[i]).records)
            seg == Segment(i)
        IN  IF dry_run_mode
            THEN /\ Count(seg, "[DRY RUN] Would have sent") = 1
                 /\ Count(seg, "[DRY RUN] Record") = k
            ELSE /\ transport[i].body = requests[i]
                 /\ Count(seg, "request sent")
                        = (IF transport[i].answer = "ok" THEN 1 ELSE 0)
                 /\ Count(seg, "exception")
                        = (IF transport[i].answer = "exception" THEN 1 ELSE 0)
                 /\ transport[i].answer = "exception" => (i = Len(requests) /\ pc = "raised")
    /\ (bulk /\ pc = "running") => pulled = Len(RunBatches) * bulk_size + Len(queue)

SequentialWitness ==
    /\ ~dry_run_mode /\ bulk /\ pc = "done"
    /\ Len(transport) = 3
    /\ transport[1].answer = "ok"
    /\ transport[2].answer = "status"
    /\ transport[3].answer = "ok"
    /\ Count(log, "request sent") = 2

\* C28: a step of a delivery operation (reset_queue, enqueue, flush,
\* send_bulk_request, send_all_rows and the encoder in it) changes neither
\* the bulk size, the all-or-none flag, the dry-run flag, the template, the
\* token nor the headers of the session.
ConfigurationFrame ==
    [][op' \notin {"init", "login", "set_session", "set"} =>
          UNCHANGED << bulk_size, all_or_none, dry_run_mode, req_item_json_template,
                       access_token, headers >>]_vars

ConfigurationFrameWitness ==
    /\ pc = "done" /\ op = "send_all_rows"
    /\ bulk_size = 2
    /\ all_or_none = "True"
    /\ dry_run_mode
    /\ req_item_json_template = "quoted"
    /\ headers = AuthHeaders(Token)
    /\ Len(requests) = 1

\* session.send has raised during the run.
TransportFailed == \E i \in 1..Len(transport) : transport[i].answer = "exception"

\* The encoder accepts every row of the source.
AllAccepted == \A i \in 1..Len(rows) : custom_json_encoder(rows[i]).ok

\* The run is over, every row was pulled and enqueued, and the last rows
\* were flushed.
Completed ==
    /\ pc = "done"
    /\ pulled = Len(rows)
    /\ Len(RunBatches) = CeilDiv(Len(rows), bulk_size)
    /\ Concat(RunBatches) = [i \in 1..Len(rows) |-> custom_json_encoder(rows[i]).d]

\* C29 as stated: a bulk-mode run that is over, in dry-run mode or with a
\* transport that always answered, has pulled, encoded and enqueued every row
\* and flushed.
RunCompletes ==
    (bulk /\ pc \in {"done", "raised"} /\ ~TransportFailed) => Completed

\* C29: a bulk-mode run over a finite source every row of which the encoder
\* accepts, with bulk size N >= 1, in dry-run mode or with a transport that
\* answers every request, eventually ends with every row pulled, encoded and
\* enqueued and the last rows flushed.
RunTerminates ==
    (pc = "running" /\ bulk /\ bulk_size >= 1 /\ AllAccepted)
        ~> (Completed \/ TransportFailed)

RunTerminatesWitness ==
    /\ Completed /\ bulk
    /\ dry_run_mode
    /\ req_item_json_template = "obj"
    /\ Len(rows) = 5 /\ bulk_size = 3
    /\ Len(RunBatches[2]) = 2

\* The records of the i-th batch handed to send_http_request.
BatchRecords(i) == json_loads(requests[i]).records

\* The rows supplied so far are encoded to items that differ from one another.
DistinctItems ==
    \A i, j \in 1..supplied :
        /\ custom_json_encoder(Row(i)).ok
        /\ i # j => custom_json_encoder(Row(i)).d # custom_json_encoder(Row(j)).d

\* C30: when every send_all_rows call made on the client has returned
\* normally, no encoded item is in more than one of the batches submitted:
\* the items of one call's final short batch are not submitted again by a
\* later call.
NoResubmission ==
    (pc = "done" /\ DistinctItems) =>
        \A i, j \in 1..Len(requests) :
            i < j => \A a \in 1..Len(BatchRecords(i)), b \in 1..Len(BatchRecords(j)) :
                        BatchRecords(i)[a] # BatchRecords(j)[b]

\* The encoded item of the i-th row of the source.
Item(i) == custom_json_encoder(rows[i]).d

\* C31: when the encoder fails on row k of a bulk-mode run, the batches
\* submitted are the full batches of the rows before k, in order, and the
\* items encoded since the last of them (at most N-1) are still in the queue,
\* submitted by nothing: the run is over.
EncoderFailureLeavesQueue ==
    (bulk /\ pc = "raised" /\ pulled > 0 /\ ~custom_json_encoder(rows[pulled]).ok) =>
        LET k == pulled
            N == bulk_size
            sent == ((k - 1) \div N) * N
        IN  /\ \A j \in 1..Len(RunBatches) : Len(RunBatches[j]) = N
            /\ Concat(RunBatches) = [i \in 1..sent |-> Item(i)]
            /\ queue = [i \in 1..(k - 1 - sent) |-> Item(sent + i)]
            /\ Len(queue) <= N - 1
            /\ ~dry_run_mode =>
                    [i \in 1..Len(transport) |-> json_loads(transport[i].body).records]
                        = RunBatches
            /\ ~ENABLED NextRun

EncoderFailureLeavesQueueWitness ==
    /\ bulk /\ pc = "raised" /\ pulled = 3
    /\ ~custom_json_encoder(rows[pulled]).ok
    /\ ~dry_run_mode
    /\ bulk_size = 3
    /\ queue = << Item(1), Item(2) >>
    /\ transport = << >>

\* C32: the counter queue_size is the length of the queue, in every state
\* the operations of the client lead to, those after an operation raised
\* included.
QueueSizeIsLength == queue_size = Len(queue)

\* An enqueue whose submission raised has left its item queued, and the next
\* enqueue has added to it.
QueueSizeIsLengthWitness ==
    /\ op = "enqueue"
    /\ error # "none"
    /\ Len(queue) = 2
    /\ queue_size = 2
    /\ bulk_size = 1

\* The rows handed to the client so far: those of the direct enqueues and
\* those the run has pulled.
Handed == supplied - (IF pc = "running" THEN Len(rows) - pulled ELSE 0)

\* C33: with a bulk size of 1 or less (0 and negatives included) every
\* enqueue submits a batch of one item at once and leaves the queue empty, so
\* that there are as many submissions as rows handed to the client, M for a
\* run of M rows.
SmallBulkSubmitsEach ==
    bulk_size <= 1 =>
        /\ queue = << >>
        /\ \A i \in 1..Len(requests) : Len(BatchRecords(i)) = 1
        /\ pc # "raised" => Len(requests) = Handed

\* C34: on a client whose all-or-none flag was never set, no operation hands
\* a request to send_http_request: nothing reaches the transport and nothing
\* is reported. An enqueue appends its item and, when the queue has reached
\* the bulk size, fails with AttributeError leaving the queue as it is, full;
\* a flush of a queue that is not empty fails the same way.
NoFlagNoSubmission ==
    [][(built = "built" /\ all_or_none = Unset) =>
          /\ requests' = requests
          /\ transport' = transport
          /\ op' = "enqueue" =>
                /\ queue' = Append(queue, custom_json_encoder(Row(supplied')).d)
                /\ queue_size' = queue_size + 1
                /\ log' = log
                /\ error' = IF queue_size + 1 >= bulk_size
                             THEN "AttributeError" ELSE "none"
          /\ op' = "flush" =>
                /\ queue' = queue
                /\ queue_size' = queue_size
                /\ log' = log
                /\ error' = IF queue_size > 0 THEN "AttributeError" ELSE "none"
      ]_vars

\* The enqueue that fills a queue of two, in dry-run mode, has failed, and
\* both items are still queued.
NoFlagNoSubmissionWitness ==
    /\ built = "built" /\ all_or_none = Unset
    /\ op = "enqueue"
    /\ error = "AttributeError"
    /\ dry_run_mode
    /\ bulk_size = 2
    /\ Len(queue) = 2
    /\ requests = << >>
    /\ log = << >>

\* C35: with no template the encoder works on a copy: after the call the
\* record has the keys and values it had before.
EncoderLeavesRecord ==
    (req_item_json_template = NoTemplate /\ encOut # Err("pending")) =>
        encSource = encRow

\* Fields i and j of the record r collide: the key of i is a single segment,
\* its value is no mapping, and the key of j is that segment and more.
Collide(r, i, j) ==
    /\ Len(split(r[i].k, Separator)) = 1
    /\ r[i].v.t # "dict"
    /\ IsPrefix(split(r[i].k, Separator), split(r[j].k, Separator))

\* C36: what a collision does depends on the order of the two keys. When the
\* flat key comes first, the encoder fails (with TypeError when the dotted key
\* has two segments and the record these two fields only). When the dotted
\* key comes first, the flat value takes the place of the nested mapping: in
\* an item the encoder returns, the flat key holds its value and nothing is
\* found at the dotted key; and a record of these two fields only is encoded
\* without any error.
CollisionByOrder ==
    (req_item_json_template = NoTemplate /\ encOut # Err("pending")) =>
        LET r == WithType(encRow)
        IN  \A i, j \in 1..Len(r) :
                Collide(r, i, j) =>
                    IF i < j
                    THEN /\ ~encOut.ok
                         /\ encOut.err \in {"TypeError", "AttributeError"}
                         /\ (Len(encRow) = 2 /\ Len(split(r[j].k, Separator)) = 2)
                                => encOut.err = "TypeError"
                    ELSE /\ Len(encRow) = 2 => encOut.ok
                         /\ encOut.ok =>
                                /\ PathGet(encOut.d, split(r[i].k, Separator))
                                       = [found |-> TRUE, v |-> r[i].v]
                                /\ ~PathGet(encOut.d, split(r[j].k, Separator)).found

\* The dotted key first: the item holds the flat value alone.
CollisionByOrderWitness ==
    /\ req_item_json_template = NoTemplate
    /\ encRow = << [k |-> << "Owner", Separator, "Id" >>,
                    v |-> Mapping(<< [k |-> Type, v |-> Scalar("y")] >>)],
                   [k |-> << "Owner" >>, v |-> Scalar("x")] >>
    /\ encOut.ok
    /\ DictGet(encOut.d, << "Owner" >>) = Scalar("x")
    /\ Len(encOut.d) = 2

====
